---- MODULE Spec2Model ----
(***************************************************************************)
(* Model of compile.py: the three-stage pipeline download_model ->         *)
(* export_to_onnx -> convert_onnx_to_engine driven by main().              *)
(*                                                                         *)
(* The state is the filesystem (the three artifact paths, the exporter's   *)
(* default output path and the output directory) plus, per process, the    *)
(* position in main() and the trace of what the run has called and         *)
(* printed.  The external collaborators (YOLO, model.save, model.export,   *)
(* Path.rename, the trtexec subprocess) are nondeterministic: each call    *)
(* picks one of the outcomes the code distinguishes (returns, raises,      *)
(* return code) together with what it left on disk.                        *)
(***************************************************************************)
EXTENDS Integers, Sequences, FiniteSets, TLC

\* Number of runs of main() that are started in one behaviour.
MaxRuns == 2
\* Number of process slots in which main() can be run.
NumProcs == 2

Procs == 1..NumProcs

VARIABLES fs, dirExists, pc, calls, exitcode, runid, runs, results

vars == <<fs, dirExists, pc, calls, exitcode, runid, runs, results>>

----------------------------------------------------------------------------
(* Paths.  pathlib's "/" joins with a separator; Path("./models") is       *)
(* normalised to "models".                                                 *)

PathJoin(dir, name) == dir \o "/" \o name

model_name == "yolov8n"
save_directory == "models"

pt_model_path == PathJoin(save_directory, model_name \o ".pt")
onnx_model_path == PathJoin(save_directory, model_name \o ".onnx")
engine_model_path == PathJoin(save_directory, model_name \o ".engine")

\* download_model computes its own target from its parameters.
PtPathOtherSuffix(name, save_path) == PathJoin(save_path, name \o ".onnx")
pt_path(name, save_path) == PathJoin(save_path, name \o ".pt")

\* export_to_onnx looks for the exporter's output at a fixed relative path.
exported_onnx == "yolov8n.onnx"

Artifacts == {pt_model_path, onnx_model_path, engine_model_path}
Paths == Artifacts \cup {exported_onnx}

----------------------------------------------------------------------------
(* Files.  A file is absent, or has a kind (empty, partial: a write that   *)
(* was cut short, full) and the number of the run that wrote it (0: it was *)
(* there before the first run).                                            *)

Absent == [kind |-> "absent", by |-> 0]
File(kind, by) == [kind |-> kind, by |-> by]

\* Path.exists(): true for any file at the path, whatever its size.
Exists(f, path) == f[path].kind # "absent"

\* The guard `if not <path>.exists():` of main's three steps.
NeedsStageAlways(f, path) == TRUE
NeedsStageInverted(f, path) == Exists(f, path)
NeedsStage(f, path) == ~Exists(f, path)

----------------------------------------------------------------------------
(* Trace events of a run.  "stage": main() invoked a stage function, args  *)
(* are its arguments and res the kind of its input file at that moment.    *)
(* "call": a call to an external collaborator, res is how it ended.        *)
(* "print": a line written to standard output.  "capture": text a          *)
(* subprocess wrote to a captured stream before it ended.                  *)

StageEv(op, args, input) == [kind |-> "stage", op |-> op, args |-> args, res |-> input]
CallEv(op, args, res) == [kind |-> "call", op |-> op, args |-> args, res |-> res]
PrintEv(text) == [kind |-> "print", op |-> "print", args |-> <<text>>, res |-> ""]

Stages == {"download_model", "export_to_onnx", "convert_onnx_to_engine"}

RECURSIVE SelectKind(_, _)
SelectKind(s, k) ==
    IF s = <<>> THEN <<>>
    ELSE IF Head(s).kind = k THEN <<Head(s)>> \o SelectKind(Tail(s), k)
    ELSE SelectKind(Tail(s), k)

RECURSIVE OpsOf(_)
OpsOf(s) == IF s = <<>> THEN <<>> ELSE <<Head(s).op>> \o OpsOf(Tail(s))

\* What a finished run is remembered by: its exit status, the stages it
\* invoked and the number of external calls it made.
Summary(code, trace) ==
    [exit |-> code,
     stages |-> OpsOf(SelectKind(trace, "stage")),
     external |-> Len(SelectKind(trace, "call"))]

----------------------------------------------------------------------------
(* Exceptions.  SystemExit derives from BaseException only, so             *)
(* `except Exception` does not catch it.                                   *)

ExceptionTypes == {"Exception", "OSError", "FileNotFoundError", "RuntimeError"}

CatchesEverything(type) == TRUE
IsException(type) == type \in ExceptionTypes

Raise(type, msg) == [type |-> type, code |-> 1, msg |-> msg]
\* sys.exit(code); str() of the exception is the code.
SysExit(code) == [type |-> "SystemExit", code |-> code, msg |-> "1"]

\* `except Exception as e: print(f"<prefix>{e}"); sys.exit(1)` applied to an
\* exception e leaving the try body: what is printed, and what leaves the
\* function.
ExceptHandler(e, prefix) ==
    IF IsException(e.type)
    THEN [out |-> <<PrintEv(prefix \o e.msg)>>, exc |-> SysExit(1)]
    ELSE [out |-> <<>>, exc |-> e]

\* Exit status of the interpreter when exception e reaches the top level.
ExitStatus(e) == IF e.type = "SystemExit" THEN e.code ELSE 1

----------------------------------------------------------------------------
(* Control.                                                                *)

GotoNeverReturns(p, label, evs) ==
    /\ pc' = [pc EXCEPT ![p] = "blocked"]
    /\ calls' = [calls EXCEPT ![p] = @ \o evs]
    /\ UNCHANGED <<exitcode, results>>
Goto(p, label, evs) ==
    /\ pc' = [pc EXCEPT ![p] = label]
    /\ calls' = [calls EXCEPT ![p] = @ \o evs]
    /\ UNCHANGED <<exitcode, results>>

\* The process ends with status `code`.
Terminate(p, code, evs) ==
    /\ pc' = [pc EXCEPT ![p] = "done"]
    /\ calls' = [calls EXCEPT ![p] = @ \o evs]
    /\ exitcode' = [exitcode EXCEPT ![p] = code]
    /\ results' = Append(results, Summary(code, calls[p] \o evs))

\* Exception e leaves a stage's try body whose handler prints `prefix`.
FailIn(p, evs, e, prefix) ==
    LET h == ExceptHandler(e, prefix)
    IN Terminate(p, ExitStatus(h.exc), evs \o h.out)

\* The last stage main() invoked in p's run, and its arguments.
StageEvents(p) == SelectKind(calls[p], "stage")
CurStage(p) == StageEvents(p)[Len(StageEvents(p))]

Running(p) == pc[p] \notin {"idle", "done"}

----------------------------------------------------------------------------
(* Initial states: any combination of absent, empty and full files; the    *)
(* artifact paths can only hold files if the output directory exists.      *)

InitialFiles == {Absent, File("empty", 0), File("full", 0)}

Init ==
    /\ fs \in [Paths -> InitialFiles]
    /\ dirExists \in BOOLEAN
    /\ ~dirExists => \A a \in Artifacts : fs[a] = Absent
    /\ calls = [p \in Procs |-> <<>>]
    /\ exitcode = [p \in Procs |-> 0]
    /\ runid = [p \in Procs |-> 0]
    /\ runs = 0
    /\ results = <<>>
    /\ pc = [p \in Procs |-> "idle"]

----------------------------------------------------------------------------
(* main()                                                                  *)

\* The process is started: main() is entered.
Start(p) ==
    /\ pc[p] \in {"idle", "done"}
    /\ runs < MaxRuns
    /\ runs' = runs + 1
    /\ runid' = [runid EXCEPT ![p] = runs + 1]
    /\ pc' = [pc EXCEPT ![p] = "mkdir"]
    /\ calls' = [calls EXCEPT ![p] = <<>>]
    /\ exitcode' = [exitcode EXCEPT ![p] = 0]
    /\ UNCHANGED <<fs, dirExists, results>>

\* Runs in sequence: a run starts only when no other run is in progress.
\* Each run is a new process; successive runs take successive slots.
StartSequential(p) ==
    /\ \A q \in Procs : ~Running(q)
    /\ p = (runs % NumProcs) + 1
    /\ Start(p)

\* save_directory.mkdir(parents=True, exist_ok=True): outside any try, so an
\* OSError is uncaught and ends the process with a traceback.
Mkdir(p) ==
    /\ pc[p] = "mkdir"
    /\ \/ /\ dirExists' = TRUE
          /\ Goto(p, "check_pt", <<>>)
       \/ /\ ~dirExists
          /\ dirExists' = dirExists
          /\ Terminate(p, ExitStatus(Raise("OSError", "mkdir")),
                       <<CallEv("mkdir", <<save_directory>>, "raise")>>)
    /\ UNCHANGED <<fs, runid, runs>>

\* Paso 1: if not pt_model_path.exists(): download_model(...) else skip.
CheckPt(p) ==
    /\ pc[p] = "check_pt"
    /\ IF NeedsStage(fs, pt_model_path)
       THEN Goto(p, "dl_load",
                 <<StageEv("download_model", <<model_name, save_directory>>, "none")>>)
       ELSE Goto(p, "check_onnx", <<PrintEv("El modelo PyTorch ya existe. Saltando descarga.")>>)
    /\ UNCHANGED <<fs, dirExists, runid, runs>>

----------------------------------------------------------------------------
(* download_model(model_name, save_path)                                   *)

DownloadError == "Error al descargar el modelo: "

\* YOLO(model_name); model.to('cpu'): the provider returns a model or raises.
DlLoad(p) ==
    /\ pc[p] = "dl_load"
    /\ LET name == CurStage(p).args[1]
           said == <<PrintEv("Descargando el modelo " \o name \o "...")>>
       IN \/ Goto(p, "dl_save", said \o <<CallEv("YOLO", <<name>>, "ok")>>)
          \/ FailIn(p, said \o <<CallEv("YOLO", <<name>>, "raise")>>,
                    Raise("Exception", "provider"), DownloadError)
    /\ UNCHANGED <<fs, dirExists, runid, runs>>

\* model.save(pt_path) writes straight to the target: it returns with the
\* file written, or raises having written nothing or a part of it.
DlSave(p) ==
    /\ pc[p] = "dl_save"
    /\ LET target == pt_path(CurStage(p).args[1], CurStage(p).args[2])
       IN \/ /\ fs' = [fs EXCEPT ![target] = File("full", runid[p])]
             /\ Goto(p, "check_onnx",
                     <<CallEv("save", <<target>>, "ok"),
                       PrintEv("Modelo descargado y guardado en " \o target)>>)
          \/ /\ \E left \in {fs[target], File("partial", runid[p])} :
                    fs' = [fs EXCEPT ![target] = left]
             /\ FailIn(p, <<CallEv("save", <<target>>, "raise")>>,
                       Raise("OSError", "save"), DownloadError)
    /\ UNCHANGED <<dirExists, runid, runs>>

----------------------------------------------------------------------------
(* export_to_onnx(pt_model_path, onnx_model_path)                          *)

ExportError == "Error al exportar a ONNX: "

\* Paso 2: if not onnx_model_path.exists(): export_to_onnx(...) else skip.
CheckOnnx(p) ==
    /\ pc[p] = "check_onnx"
    /\ IF NeedsStage(fs, onnx_model_path)
       THEN Goto(p, "ex_load",
                 <<StageEv("export_to_onnx", <<pt_model_path, onnx_model_path>>,
                           fs[pt_model_path].kind)>>)
       ELSE Goto(p, "check_engine", <<PrintEv("El modelo ONNX ya existe. Saltando exportacion.")>>)
    /\ UNCHANGED <<fs, dirExists, runid, runs>>

\* model = YOLO(pt_model_path)
ExLoad(p) ==
    /\ pc[p] = "ex_load"
    /\ LET src == CurStage(p).args[1]
           said == <<PrintEv("Exportando el modelo " \o src \o " a ONNX...")>>
       IN \/ Goto(p, "ex_export", said \o <<CallEv("YOLO", <<src>>, "ok")>>)
          \/ FailIn(p, said \o <<CallEv("YOLO", <<src>>, "raise")>>,
                    Raise("Exception", "load"), ExportError)
    /\ UNCHANGED <<fs, dirExists, runid, runs>>

\* model.export(format="onnx", ...): returns having written its output at
\* exported_onnx or somewhere else, or raises having written nothing or a
\* part of the file.
ExExport(p) ==
    /\ pc[p] = "ex_export"
    /\ \/ /\ \E out \in {fs[exported_onnx], File("full", runid[p])} :
                 fs' = [fs EXCEPT ![exported_onnx] = out]
          /\ Goto(p, "ex_check", <<CallEv("export", <<"onnx">>, "ok")>>)
       \/ /\ \E left \in {fs[exported_onnx], File("partial", runid[p])} :
                 fs' = [fs EXCEPT ![exported_onnx] = left]
          /\ FailIn(p, <<CallEv("export", <<"onnx">>, "raise")>>,
                    Raise("RuntimeError", "export"), ExportError)
    /\ UNCHANGED <<dirExists, runid, runs>>

\* exported_onnx.exists(), the test made after the export call returned.
ExportedFoundAlways(f) == TRUE
ExportedFound(f) == Exists(f, exported_onnx)

\* if exported_onnx.exists(): ... else: print(...); sys.exit(1)
ExCheck(p) ==
    /\ pc[p] = "ex_check"
    /\ IF ExportedFound(fs)
       THEN Goto(p, "ex_rename", <<>>)
       ELSE FailIn(p, <<PrintEv("Exportacion a ONNX fallo: archivo .onnx no encontrado.")>>,
                   SysExit(1), ExportError)
    /\ UNCHANGED <<fs, dirExists, runid, runs>>

\* exported_onnx.rename(onnx_model_path): moves the file over the target, or
\* raises and moves nothing.
ExRename(p) ==
    /\ pc[p] = "ex_rename"
    /\ LET dst == CurStage(p).args[2]
           ev(res) == CallEv("rename", <<exported_onnx, dst>>, res)
       IN IF ~Exists(fs, exported_onnx)
          THEN /\ fs' = fs
               /\ FailIn(p, <<ev("raise")>>, Raise("FileNotFoundError", "rename"), ExportError)
          ELSE \/ /\ fs' = [fs EXCEPT ![dst] = fs[exported_onnx], ![exported_onnx] = Absent]
                  /\ Goto(p, "check_engine",
                          <<ev("ok"), PrintEv("Modelo exportado a ONNX y guardado en " \o dst)>>)
               \/ /\ fs' = fs
                  /\ FailIn(p, <<ev("raise")>>, Raise("OSError", "rename"), ExportError)
    /\ UNCHANGED <<dirExists, runid, runs>>

----------------------------------------------------------------------------
(* convert_onnx_to_engine(onnx_model_path, engine_path, precision)         *)

ConvertError == "Error al convertir a TensorRT: "

Precisions == {"fp32", "fp16", "int8"}

\* Paso 3: if not engine_model_path.exists(): convert_onnx_to_engine(...,
\* precision="fp16") else skip; main() then returns.
CheckEngine(p) ==
    /\ pc[p] = "check_engine"
    /\ IF NeedsStage(fs, engine_model_path)
       THEN Goto(p, "cv_probe",
                 <<StageEv("convert_onnx_to_engine",
                           <<onnx_model_path, engine_model_path, "fp16">>,
                           fs[onnx_model_path].kind)>>)
       ELSE Terminate(p, 0, <<PrintEv("El modelo TensorRT .engine ya existe. Saltando conversion.")>>)
    /\ UNCHANGED <<fs, dirExists, runid, runs>>

ProbeCmd == <<"trtexec", "--version">>

\* if result.returncode != 0: print(...); sys.exit(1)
ProbeNeverFailed(returncode) == FALSE
ProbeFailed(returncode) == returncode # 0

\* result = subprocess.run(["trtexec", "--version"], ...)
CvProbe(p) ==
    /\ pc[p] = "cv_probe"
    /\ LET a == CurStage(p).args
           said == <<PrintEv("Convirtiendo " \o a[1] \o " a TensorRT .engine con precision "
                             \o a[3] \o "...")>>
       IN \/ FailIn(p, said \o <<CallEv("subprocess.run", ProbeCmd, "raise")>>,
                    Raise("FileNotFoundError", "trtexec"), ConvertError)
          \/ \E returncode \in {0, 1} :
                IF ProbeFailed(returncode)
                THEN FailIn(p, said \o <<CallEv("subprocess.run", ProbeCmd, "nonzero"),
                                        PrintEv("Error: trtexec no esta disponible.")>>,
                            SysExit(1), ConvertError)
                ELSE Goto(p, "cv_run",
                          said \o <<CallEv("subprocess.run", ProbeCmd,
                                           IF returncode = 0 THEN "zero" ELSE "nonzero")>>)
    /\ UNCHANGED <<fs, dirExists, runid, runs>>

\* trtexec_cmd = ["trtexec", f"--onnx={...}", f"--saveEngine={...}", f"--{precision}"]
TrtexecCmdDefaultPrecision(onnx, engine, precision) ==
    <<"trtexec", "--onnx=" \o onnx, "--saveEngine=" \o engine, "--fp16">>
TrtexecCmd(onnx, engine, precision) ==
    <<"trtexec", "--onnx=" \o onnx, "--saveEngine=" \o engine, "--" \o precision>>

\* if process.returncode != 0: print(stderr); sys.exit(1)
CompileNeverFailed(returncode) == FALSE
CompileFailed(returncode) == returncode # 0

\* capture_output=True, text=True: what the subprocess wrote to its standard
\* error is kept in process.stderr.
StderrTexts == {"", "Engine build failed"}
CaptureEv(stream, text) == [kind |-> "capture", op |-> stream, args |-> <<text>>, res |-> ""]

\* print(f"Error en trtexec:\n{process.stderr}")
CompileDiagnosticWithoutStderr(stderr) == "Error en trtexec:\n"
CompileDiagnostic(stderr) == "Error en trtexec:\n" \o stderr

\* process = subprocess.run(trtexec_cmd, ...): trtexec writes straight to the
\* engine path.  It cannot be started (raises), or ends with a return code
\* and some text on its standard error, having written the engine, a part of
\* it, or nothing.
CvRun(p) ==
    /\ pc[p] = "cv_run"
    /\ LET a == CurStage(p).args
           cmd == TrtexecCmd(a[1], a[2], a[3])
           said == <<PrintEv("Ejecutando comando: " \o cmd[1] \o " " \o cmd[2] \o " "
                             \o cmd[3] \o " " \o cmd[4])>>
           ev(res) == CallEv("subprocess.run", cmd, res)
       IN \/ /\ fs' = fs
             /\ FailIn(p, said \o <<ev("raise")>>, Raise("OSError", "trtexec"), ConvertError)
          \/ \E returncode \in {0, 1}, stderr \in StderrTexts :
             \E left \in {fs[a[2]],
                          File(IF returncode = 0 THEN "full" ELSE "partial", runid[p])} :
                /\ fs' = [fs EXCEPT ![a[2]] = left]
                /\ IF CompileFailed(returncode)
                   THEN FailIn(p, said \o <<CaptureEv("stderr", stderr), ev("nonzero"),
                                           PrintEv(CompileDiagnostic(stderr))>>,
                               SysExit(1), ConvertError)
                   ELSE Terminate(p, 0,
                            said \o <<CaptureEv("stderr", stderr),
                                      ev(IF returncode = 0 THEN "zero" ELSE "nonzero"),
                                      PrintEv("Conversion a TensorRT .engine completada y guardada en "
                                              \o a[2])>>)
    /\ UNCHANGED <<dirExists, runid, runs>>

----------------------------------------------------------------------------
(* Specifications.                                                         *)

Step(p) ==
    \/ Mkdir(p)
    \/ CheckPt(p) \/ DlLoad(p) \/ DlSave(p)
    \/ CheckOnnx(p) \/ ExLoad(p) \/ ExExport(p) \/ ExCheck(p) \/ ExRename(p)
    \/ CheckEngine(p) \/ CvProbe(p) \/ CvRun(p)

\* Runs of main(), one after the other.
Next == \E p \in Procs : StartSequential(p) \/ Step(p)

Spec == Init /\ [][Next]_vars

----------------------------------------------------------------------------
(* convert_onnx_to_engine called on its own, with arguments of the         *)
(* caller's choice.                                                        *)

OnnxArgs == {onnx_model_path, exported_onnx}
EngineArgs == {engine_model_path, pt_model_path}
PrecisionArgs == Precisions \cup {"best", "FP16"}

\* The state on entry to convert_onnx_to_engine(onnx, engine, precision) in
\* process 1.
InitStage ==
    /\ fs \in [Paths -> InitialFiles]
    /\ dirExists \in BOOLEAN
    /\ ~dirExists => \A a \in Artifacts : fs[a] = Absent
    /\ pc = [p \in Procs |-> IF p = 1 THEN "cv_probe" ELSE "idle"]
    /\ \E onnx \in OnnxArgs, engine \in EngineArgs, precision \in PrecisionArgs :
          calls = [p \in Procs |->
                      IF p = 1
                      THEN <<StageEv("convert_onnx_to_engine", <<onnx, engine, precision>>,
                                     fs[onnx].kind)>>
                      ELSE <<>>]
    /\ exitcode = [p \in Procs |-> 0]
    /\ runid = [p \in Procs |-> IF p = 1 THEN 1 ELSE 0]
    /\ runs = 1
    /\ results = <<>>

NextStage == \E p \in Procs : CvProbe(p) \/ CvRun(p)

SpecStage == InitStage /\ [][NextStage]_vars

----------------------------------------------------------------------------
(* Vocabulary of the properties.                                           *)

Events(p) == {calls[p][i] : i \in DOMAIN calls[p]}

IsStageEv(e, ops) == e.kind = "stage" /\ e.op \in ops
IsProbe(e) == e.kind = "call" /\ e.op = "subprocess.run" /\ e.args = ProbeCmd
IsCompile(e) == e.kind = "call" /\ e.op = "subprocess.run" /\ e.args # ProbeCmd

\* A call that raised or returned non-zero, or the exporter's file missing.
MissingExport == PrintEv("Exportacion a ONNX fallo: archivo .onnx no encontrado.")
IsFailure(e) == (e.kind = "call" /\ e.res \in {"raise", "nonzero"}) \/ e = MissingExport

\* The path a stage is to produce, from the arguments of its invocation.
StageOutput(e) ==
    IF e.op = "download_model" THEN PathJoin(e.args[2], e.args[1] \o ".pt") ELSE e.args[2]

Finished(p) == pc[p] = "done"

PrecisionFlags == {"--" \o x : x \in Precisions}

----------------------------------------------------------------------------
(* Properties.                                                             *)

\* C1: when main() is run twice in sequence, a run that follows a run that
\* exited 0 invokes no stage and exits 0.
C1_SecondRunDoesNothing ==
    \A i \in 1..(Len(results) - 1) :
        results[i].exit = 0 => results[i + 1].exit = 0 /\ results[i + 1].stages = <<>>

\* C2: whenever a run of main() has finished with exit status 0, the three
\* artifact files exist.
C2_SuccessHasAllArtifacts ==
    \A p \in Procs :
        Finished(p) /\ exitcode[p] = 0 => \A a \in Artifacts : Exists(fs, a)

\* C3: when a run has ended in failure inside a stage, nothing exists at that
\* stage's output path (the path was absent when the stage was invoked, so a
\* file there was left by the failed attempt and would be taken by the next
\* run's skip check for a completed artifact).
C3_FailedStageLeavesNoOutput ==
    \A p \in Procs :
        Finished(p) /\ exitcode[p] # 0 /\ StageEvents(p) # <<>>
            => ~Exists(fs, StageOutput(CurStage(p)))

\* C4: export_to_onnx is invoked only while the .pt path exists and
\* convert_onnx_to_engine only while the .onnx path exists.
C4_InputsExistWhenInvoked ==
    \A p \in Procs : \A e \in Events(p) :
        IsStageEv(e, {"export_to_onnx", "convert_onnx_to_engine"}) => e.res # "absent"

\* A run that found nothing, downloaded, exported and went on to compile.
C4_Witness ==
    \E p \in Procs :
        /\ OpsOf(StageEvents(p)) = <<"download_model", "export_to_onnx", "convert_onnx_to_engine">>
        /\ fs[pt_model_path].by = runid[p]
        /\ fs[onnx_model_path].by = runid[p]

\* C5: a failure (a call that raises or returns non-zero, the exported file
\* missing) ends the run at once with a non-zero status: nothing is called
\* after it, a run that exits 0 met no failure, and the SystemExit raised in
\* a try block is not caught and reported by that stage's except clause.
C5_HaltOnFirstFailure ==
    \A p \in Procs :
        /\ \A i \in DOMAIN calls[p] :
              IsFailure(calls[p][i]) =>
                  /\ Finished(p) /\ exitcode[p] # 0
                  /\ \A j \in DOMAIN calls[p] : j > i => calls[p][j].kind = "print"
        /\ \A e \in Events(p) :
              e \notin {PrintEv(prefix \o SysExit(1).msg) :
                           prefix \in {DownloadError, ExportError, ConvertError}}

\* A run ended by sys.exit(1) inside a try block: the probe returned non-zero.
C5_Witness ==
    \E p \in Procs :
        /\ Finished(p) /\ exitcode[p] = 1
        /\ \E e \in Events(p) : IsProbe(e) /\ e.res = "nonzero"

\* C6: the real compile call is made only after a probe that returned 0 in
\* the same invocation, and after a probe that returned non-zero or could
\* not be run the run ends non-zero with no compile call.
C6_ProbeBeforeCompile ==
    \A p \in Procs : \A i \in DOMAIN calls[p] :
        /\ IsCompile(calls[p][i]) =>
              \E j \in 1..(i - 1) : IsProbe(calls[p][j]) /\ calls[p][j].res = "zero"
        /\ IsProbe(calls[p][i]) /\ calls[p][i].res # "zero" =>
              /\ Finished(p) /\ exitcode[p] # 0
              /\ \A e \in Events(p) : ~IsCompile(e)

\* One run issued the compile call, another was stopped by a failed probe.
C6_Witness ==
    \E p, q \in Procs :
        /\ \E e \in Events(p) : IsCompile(e)
        /\ Finished(q) /\ \E e \in Events(q) : IsProbe(e) /\ e.res = "nonzero"

\* C7: the compile call never carries a precision flag other than --fp32,
\* --fp16 or --int8, whatever precision convert_onnx_to_engine is given.
C7_OnlyValidPrecisionPassed ==
    \A p \in Procs : \A e \in Events(p) :
        IsCompile(e) => e.args[Len(e.args)] \in PrecisionFlags

\* C8: for a precision p of fp32, fp16, int8, the compile call's argument
\* list holds the source path, the engine path and exactly one precision
\* flag, which is --p.
C8_PrecisionPassThrough ==
    \A p \in Procs : \A e \in Events(p) :
        IsCompile(e) /\ CurStage(p).args[3] \in Precisions =>
            LET a == CurStage(p).args
                flags == {k \in DOMAIN e.args : e.args[k] \in PrecisionFlags}
            IN /\ Cardinality(flags) = 1
               /\ \A k \in flags : e.args[k] = "--" \o a[3]
               /\ \E k \in DOMAIN e.args : e.args[k] = "--onnx=" \o a[1]
               /\ \E k \in DOMAIN e.args : e.args[k] = "--saveEngine=" \o a[2]
               /\ Len(e.args) = 4 /\ e.args[1] = "trtexec"

\* A compile call for int8 on paths other than main()'s.
C8_Witness ==
    \E p \in Procs : \E e \in Events(p) :
        /\ IsCompile(e)
        /\ CurStage(p).args = <<exported_onnx, pt_model_path, "int8">>

\* C9: over runs in sequence, a file that exists at an artifact path is
\* never rewritten, replaced or deleted.
C9_ArtifactsNeverChange ==
    [][\A a \in Artifacts : Exists(fs, a) => fs'[a] = fs[a]]_vars

\* A second run did stage work next to an artifact kept from the first run.
C9_Witness ==
    /\ Len(results) = 2
    /\ results[2].stages # <<>>
    /\ \E a, b \in Artifacts : fs[a].by = 1 /\ fs[b].by = 2

\* C10: main() never invokes export_to_onnx or convert_onnx_to_engine with
\* an input file that is absent or empty.
C10_InputsNonEmptyWhenInvoked ==
    \A p \in Procs : \A e \in Events(p) :
        IsStageEv(e, {"export_to_onnx", "convert_onnx_to_engine"})
            => e.res \notin {"absent", "empty"}

StageRank(op) ==
    CASE op = "download_model" -> 1
      [] op = "export_to_onnx" -> 2
      [] op = "convert_onnx_to_engine" -> 3

\* A call event of process p strictly between positions i and j.
CallBetween(p, i, j, ev) == \E k \in DOMAIN calls[p] : i < k /\ k < j /\ calls[p][k] = ev

\* C11: within a run the stages are started in the order download, export,
\* convert; a stage is started only with its input present, and if the stage
\* before it ran in this run, only after that stage's last call returned.
C11_StrictSequencing ==
    \A p \in Procs : \A j \in DOMAIN calls[p] :
        LET e == calls[p][j]
        IN e.kind = "stage" =>
            /\ \A i \in 1..(j - 1) :
                  calls[p][i].kind = "stage" => StageRank(calls[p][i].op) < StageRank(e.op)
            /\ e.op # "download_model" => e.res # "absent"
            /\ \A i \in 1..(j - 1) :
                  /\ e.op = "export_to_onnx" /\ IsStageEv(calls[p][i], {"download_model"})
                        => CallBetween(p, i, j, CallEv("save", <<pt_model_path>>, "ok"))
                  /\ e.op = "convert_onnx_to_engine" /\ IsStageEv(calls[p][i], {"export_to_onnx"})
                        => CallBetween(p, i, j,
                                       CallEv("rename", <<exported_onnx, onnx_model_path>>, "ok"))

\* A run that went through the three stages in order and exited 0.
C11_Witness ==
    \E p \in Procs :
        /\ Finished(p) /\ exitcode[p] = 0
        /\ OpsOf(StageEvents(p)) = <<"download_model", "export_to_onnx", "convert_onnx_to_engine">>

AllPresent(f) == \A a \in Artifacts : Exists(f, a)

NoWork(trace) == \A i \in DOMAIN trace : trace[i].kind = "print"

\* C12: a run that starts with the three artifacts present calls nothing
\* external, changes no file and exits 0.  Stated step by step: a run is
\* entered with an empty trace, and while the three artifacts are present
\* every step of the run leaves the files alone, adds no stage invocation and
\* no external call to the trace, and can end the run only with status 0.
C12_AllPresentDoesNothing ==
    /\ [](\A p \in Procs : pc[p] = "mkdir" => calls[p] = <<>>)
    /\ [][\A p \in Procs :
             Running(p) /\ AllPresent(fs) =>
                 /\ fs' = fs
                 /\ NoWork(calls[p]) => NoWork(calls'[p])
                 /\ pc'[p] = "done" => exitcode'[p] = 0]_vars

\* A second run that found the three artifacts of the first, did no work and
\* exited 0.
C12_Witness ==
    \E p \in Procs :
        /\ Finished(p) /\ exitcode[p] = 0 /\ runid[p] = 2
        /\ NoWork(calls[p])
        /\ \A a \in Artifacts : fs[a] = File("full", 1)
        /\ results[2].external = 0

\* C13: when the export call returns and no file is at the expected place,
\* export_to_onnx ends the run with a non-zero status, as it does when the
\* export call raises: the step that follows is the exit, the status is the
\* same in both cases, nothing is renamed and the .onnx artifact path is not
\* created.
C13_MissingExportFails ==
    /\ [][\A p \in Procs :
             /\ pc[p] = "ex_check" /\ ~Exists(fs, exported_onnx) /\ pc'[p] # pc[p] =>
                   /\ pc'[p] = "done" /\ exitcode'[p] = 1
                   /\ MissingExport \in {calls'[p][i] : i \in DOMAIN calls'[p]}
                   /\ fs' = fs
             /\ pc[p] \in {"ex_export", "ex_check"} /\ pc'[p] = "done" =>
                   /\ exitcode'[p] = 1
                   /\ ~Exists(fs', onnx_model_path)]_vars
    /\ [](\A p \in Procs :
             (\/ MissingExport \in Events(p)
              \/ CallEv("export", <<"onnx">>, "raise") \in Events(p)) =>
                 /\ Finished(p) /\ exitcode[p] = 1
                 /\ \A e \in Events(p) : ~(e.kind = "call" /\ e.op = "rename"))

\* A run ended because the export call returned without leaving its file.
C13_Witness ==
    \E p \in Procs :
        /\ Finished(p) /\ exitcode[p] = 1
        /\ CallEv("export", <<"onnx">>, "ok") \in Events(p)
        /\ MissingExport \in Events(p)
        /\ ~Exists(fs, onnx_model_path)

\* C14: the paths are the same in every run and are the ones main() checks:
\* every invocation of a stage carries the same arguments, download_model
\* saves at the .pt path main() tests, the rename targets the .onnx path and
\* the compile call the .engine path, all three being <dir>/<name>.<suffix>.
C14_PathDeterminism ==
    /\ pt_model_path = "models/yolov8n.pt"
    /\ onnx_model_path = "models/yolov8n.onnx"
    /\ engine_model_path = "models/yolov8n.engine"
    /\ \A p \in Procs : \A e \in Events(p) :
          /\ IsStageEv(e, {"download_model"}) => e.args = <<model_name, save_directory>>
          /\ IsStageEv(e, {"export_to_onnx"}) => e.args = <<pt_model_path, onnx_model_path>>
          /\ IsStageEv(e, {"convert_onnx_to_engine"}) =>
                 SubSeq(e.args, 1, 2) = <<onnx_model_path, engine_model_path>>
          /\ e.kind = "call" /\ e.op = "save" => e.args = <<pt_model_path>>
          /\ e.kind = "call" /\ e.op = "rename" => e.args[2] = onnx_model_path
          /\ IsCompile(e) => e.args[3] = "--saveEngine=" \o engine_model_path
    /\ \A p, q \in Procs : \A e \in Events(p), f \in Events(q) :
          e.kind = "stage" /\ f.kind = "stage" /\ e.op = f.op => e.args = f.args
    /\ \A p \in Procs :
          (\E e \in Events(p) : e.kind = "call" /\ e.op = "save" /\ e.res = "ok")
              => Exists(fs, pt_model_path)

\* Two runs that both invoked download_model, the second one saving the file.
C14_Witness ==
    \E p, q \in Procs :
        /\ runid[p] = 1 /\ runid[q] = 2
        /\ \E e \in Events(p) : IsStageEv(e, {"download_model"})
        /\ CallEv("save", <<pt_model_path>>, "ok") \in Events(q)
        /\ fs[pt_model_path] = File("full", 2)

\* The positions of p's trace that hold an invocation of stage s, a probe
\* call, a compile call.
StageAt(p, s) == {i \in DOMAIN calls[p] : IsStageEv(calls[p][i], {s})}
ProbeAt(p) == {i \in DOMAIN calls[p] : IsProbe(calls[p][i])}
CompileAt(p) == {i \in DOMAIN calls[p] : IsCompile(calls[p][i])}

\* C15: in one run each stage is invoked at most once, the probe is run at
\* most once and the compile call at most once, and after a failed call
\* nothing more is called in that run.
C15_SingleAttempt ==
    \A p \in Procs :
        /\ \A s \in Stages : Cardinality(StageAt(p, s)) <= 1
        /\ Cardinality(ProbeAt(p)) <= 1
        /\ Cardinality(CompileAt(p)) <= 1
        /\ \A i, j \in DOMAIN calls[p] :
              i < j /\ IsFailure(calls[p][i]) => calls[p][j].kind \notin {"call", "stage"}

\* A run whose compile call returned non-zero: one probe, one compile call,
\* and the process has ended.
C15_Witness ==
    \E p \in Procs :
        /\ Finished(p)
        /\ Cardinality(ProbeAt(p)) = 1 /\ Cardinality(CompileAt(p)) = 1
        /\ \E e \in Events(p) : IsCompile(e) /\ e.res = "nonzero"

CompletedNotice(engine) == PrintEv("Conversion a TensorRT .engine completada y guardada en " \o engine)

\* C16: when the compile call returns non-zero, the run ends with a non-zero
\* status, what it prints after the call is the trtexec error line carrying
\* the standard error text captured from that call, and it does not print
\* that the conversion was completed.
C16_CompileFailureSurfaced ==
    \A p \in Procs : \A i \in DOMAIN calls[p] :
        IsCompile(calls[p][i]) /\ calls[p][i].res = "nonzero" =>
            /\ Finished(p) /\ exitcode[p] # 0
            /\ i > 1 /\ calls[p][i - 1].kind = "capture" /\ calls[p][i - 1].op = "stderr"
            /\ i < Len(calls[p])
            /\ calls[p][i + 1] = PrintEv("Error en trtexec:\n" \o calls[p][i - 1].args[1])
            /\ \A e \in Events(p) : e # CompletedNotice(CurStage(p).args[2])

\* A failed compile call whose standard error text was not empty.
C16_Witness ==
    \E p \in Procs : \E i \in DOMAIN calls[p] :
        /\ IsCompile(calls[p][i]) /\ calls[p][i].res = "nonzero"
        /\ calls[p][i - 1] = CaptureEv("stderr", "Engine build failed")
        /\ Finished(p) /\ exitcode[p] = 1

StageEntered(p, s) == \E e \in {calls'[p][i] : i \in DOMAIN calls'[p]} \ Events(p) : IsStageEv(e, {s})

\* C17: at each of main()'s three boundaries the stage is invoked if and only
\* if its own output path is absent at that moment, whatever the state of the
\* other paths; otherwise the run moves on to the next boundary (after the
\* last one it exits 0).
C17_SkipIsPresenceOnly ==
    [][\A p \in Procs :
          /\ pc[p] = "check_pt" /\ pc'[p] # pc[p] =>
                /\ (pc'[p] = "dl_load" /\ StageEntered(p, "download_model"))
                       <=> ~Exists(fs, pt_model_path)
                /\ pc'[p] = "check_onnx"
                       <=> Exists(fs, pt_model_path)
          /\ pc[p] = "check_onnx" /\ pc'[p] # pc[p] =>
                /\ (pc'[p] = "ex_load" /\ StageEntered(p, "export_to_onnx"))
                       <=> ~Exists(fs, onnx_model_path)
                /\ pc'[p] = "check_engine" <=> Exists(fs, onnx_model_path)
          /\ pc[p] = "check_engine" /\ pc'[p] # pc[p] =>
                /\ (pc'[p] = "cv_probe" /\ StageEntered(p, "convert_onnx_to_engine"))
                       <=> ~Exists(fs, engine_model_path)
                /\ (pc'[p] = "done" /\ exitcode'[p] = 0) <=> Exists(fs, engine_model_path)]_vars

\* The model was absent and an .onnx file was already there: the run
\* downloaded the model, skipped the export and went on to the engine.
C17_Witness ==
    \E p \in Procs :
        /\ runid[p] = 1 /\ Finished(p)
        /\ fs[pt_model_path] = File("full", 1)
        /\ fs[onnx_model_path] = File("full", 0)
        /\ OpsOf(StageEvents(p)) = <<"download_model", "convert_onnx_to_engine">>

----------------------------------------------------------------------------
(* Two instances of main() at once on the same directory: either may be    *)
(* started whatever the other is doing.  The directory exists, each        *)
(* artifact path is absent or holds a complete file, and no export has     *)
(* been left at the exporter's default path.                               *)

Instances == {p \in Procs : p <= 2}

InitConcurrent ==
    /\ fs \in [Paths -> {Absent, File("full", 0)}]
    /\ fs[exported_onnx] = Absent
    /\ dirExists = TRUE
    /\ calls = [p \in Procs |-> <<>>]
    /\ exitcode = [p \in Procs |-> 0]
    /\ runid = [p \in Procs |-> 0]
    /\ runs = 0
    /\ results = <<>>
    /\ pc = [p \in Procs |-> "idle"]

NextConcurrent == \E p \in Instances : Start(p) \/ Step(p)

SpecConcurrent == InitConcurrent /\ [][NextConcurrent]_vars

\* The position at which a process writes or renames onto an artifact path.
WritesAt(a) ==
    CASE a = pt_model_path -> "dl_save"
      [] a = onnx_model_path -> "ex_rename"
      [] a = engine_model_path -> "cv_run"

\* C18: with instances running at once, the only thing between a process and
\* a stage is its own check that the output is absent, made before the stage
\* and not repeated: a stage is entered exactly on an 'absent' check, and a
\* file that exists at an artifact path is overwritten only by a process that
\* is inside the stage producing it, having passed that check earlier.  The
\* witness is the race: two processes passed the check, both ran the stage
\* and both renamed onto the same path.
C18_CheckThenAct ==
    [][\A p \in Procs :
          /\ pc[p] = "check_pt" /\ pc'[p] = "dl_load" => ~Exists(fs, pt_model_path)
          /\ pc[p] = "check_onnx" /\ pc'[p] = "ex_load" => ~Exists(fs, onnx_model_path)
          /\ pc[p] = "check_engine" /\ pc'[p] = "cv_probe" => ~Exists(fs, engine_model_path)
          /\ \A a \in Artifacts :
                Exists(fs, a) /\ fs'[a] # fs[a] /\ pc'[p] # pc[p] =>
                    /\ pc[p] = WritesAt(a)
                    /\ \E e \in Events(p) : e.kind = "stage" /\ StageOutput(e) = a]_vars

\* Two processes both invoked export_to_onnx on the same paths and both
\* renamed their export onto the .onnx path: it was renamed over.
C18_Witness ==
    \E p, q \in Procs :
        /\ p # q
        /\ \E e \in Events(p) : IsStageEv(e, {"export_to_onnx"}) /\ e \in Events(q)
        /\ CallEv("rename", <<exported_onnx, onnx_model_path>>, "ok") \in Events(p)
        /\ CallEv("rename", <<exported_onnx, onnx_model_path>>, "ok") \in Events(q)
        /\ fs[onnx_model_path].by \in {runid[p], runid[q]}

----------------------------------------------------------------------------
(* One run of main() from its entry, in which every step is eventually     *)
(* taken: each step is a test made by main() or one external call, and a   *)
(* call that has been made returns (or raises).                            *)

InitRun ==
    /\ fs \in [Paths -> InitialFiles]
    /\ dirExists \in BOOLEAN
    /\ ~dirExists => \A a \in Artifacts : fs[a] = Absent
    /\ pc = [p \in Procs |-> IF p = 1 THEN "mkdir" ELSE "idle"]
    /\ calls = [p \in Procs |-> <<>>]
    /\ exitcode = [p \in Procs |-> 0]
    /\ runid = [p \in Procs |-> IF p = 1 THEN 1 ELSE 0]
    /\ runs = 1
    /\ results = <<>>

NextRun == \E p \in Procs : Step(p)

SpecRunFair == InitRun /\ [][NextRun]_vars /\ \A p \in Procs : WF_vars(Step(p))

\* C19: provided every external call returns, a run of main() that has been
\* started ends, with status 0 or non-zero.
C19_Terminates ==
    \A p \in Procs : Running(p) ~> (Finished(p) /\ exitcode[p] \in {0, 1})

\* A run that made every external call of the pipeline and ended.
C19_Witness ==
    \E p \in Procs :
        /\ Finished(p)
        /\ Len(SelectKind(calls[p], "call")) = 7

\* C20: whenever export_to_onnx returns normally (its rename succeeded), the
\* .onnx artifact path holds a file, nothing is left at the exporter's
\* default path, and the file is the complete one written by this
\* invocation's export call.
C20_RelocatedFileIsThisExport ==
    \A p \in Procs :
        pc[p] = "check_engine"
            /\ CallEv("rename", <<exported_onnx, onnx_model_path>>, "ok") \in Events(p) =>
            /\ Exists(fs, onnx_model_path)
            /\ ~Exists(fs, exported_onnx)
            /\ fs[onnx_model_path] = File("full", runid[p])

====
